---- MODULE Spec2Model ----
(***************************************************************************)
(* The Go analyzer of fossa-cli (analyzers/golang/golang.go): construction *)
(* of an Analyzer by New, and the operations Clean, Build and IsBuilt,     *)
(* which call the external go tool through gocmd.Go.                       *)
(***************************************************************************)
EXTENDS Integers, Sequences, FiniteSets, TLC

\* ------------------------------------------------------------------ bounds

\* Longest user tag list (Options.Tags) New is called with.
MaxTags == 2

\* ------------------------------------------------------------- value sets

Nil == "nil"
\* The nil *Analyzer New returns with an error.
NoAnalyzer == [nil |-> TRUE]

\* Tokens a user may list in the tags option; "" is a legal element.
UserTags == {"", "netgo"}
ImportPaths == {"example.org/app", "example.org/lib"}
Dirs == {"/src/app"}
Commands == {"go", "gotip"}
EnvValues == {"", "gotip"}

RECURSIVE SeqsUpTo(_, _)
SeqsUpTo(S, n) ==
  IF n = 0 THEN {<<>>}
  ELSE LET shorter == SeqsUpTo(S, n - 1)
       IN shorter \cup {Append(s, x) : s \in {t \in shorter : Len(t) = n - 1}, x \in S}

Range(s) == {s[i] : i \in 1..Len(s)}

osTags == <<"windows", "linux", "freebsd", "android", "darwin", "dragonfly",
            "nacl", "netbsd", "openbsd", "plan9", "solaris">>
archTags == <<"386", "amd64", "amd64p32", "arm", "armbe", "arm64", "arm64be",
              "ppc64", "ppc64le", "mips", "mipsle", "mips64", "mips64le",
              "mips64p32", "mips64p32le", "ppc", "s390", "s390x", "sparc",
              "sparc64">>

\* The fields of Options that New, Clean, Build and IsBuilt read.
Options == [Tags : SeqsUpTo(UserTags, MaxTags), AllTags : BOOLEAN,
            ModulesVendor : BOOLEAN]
ZeroOptions == [Tags |-> <<>>, AllTags |-> FALSE, ModulesVendor |-> FALSE]

\* module.Module as handed to New: Options is the undecoded map; wellTyped
\* says whether its values have the types the Options struct declares.
RawOptions == [Tags : SeqsUpTo(UserTags, MaxTags), AllTags : BOOLEAN,
               ModulesVendor : BOOLEAN, wellTyped : BOOLEAN]
Modules == [Dir : Dirs, BuildTarget : ImportPaths, Options : RawOptions]

EmptyCache == <<>>

\* The workers of the analysis, and the keys of the two caches.
Workers == {"w1", "w2"}
CacheNames == {"resolver", "project"}
CacheDirs == {"/src/app", "/src/app/vendor/x"}
CacheKeys == CacheNames \X CacheDirs
Free == "free"
NoValue == [none |-> TRUE]

VARIABLES
  installed,  \* the commands that can be run on this host
  goCmdEnv,   \* the value of the FOSSA_GO_CMD environment variable
  loads,      \* toolchain: import path -> the package loads under the host world
  built,      \* toolchain: import path -> build artefacts exist
  analyzer,   \* the Analyzer New returned, or NoAnalyzer
  calls,      \* the toolchain invocations the last operation issued
  ret,        \* what the last operation returned
  prev,       \* what the operation before it returned
  wpc,        \* worker -> where it is in a cache lookup
  wreq,       \* worker -> the <<cache, dir>> it is looking up
  wgot,       \* worker -> the value its last lookup returned
  locks,      \* <<cache, dir>> -> the worker in its exclusive section, or Free
  writers     \* <<cache, dir>> -> the workers that wrote the entry

vars == <<installed, goCmdEnv, loads, built, analyzer, calls, ret, prev,
          wpc, wreq, wgot, locks, writers>>
toolVars == <<installed, goCmdEnv, loads, built>>
opVars == <<calls, ret, prev>>
workerVars == <<wpc, wreq, wgot, locks, writers>>

NoRet == [op |-> "none", val |-> FALSE, err |-> Nil]

\* ---------------------------------------------------------------- helpers

\* mapstructure.Decode(m.Options, &options)
Decode(raw) ==
  IF raw.wellTyped
  THEN [options |-> [Tags |-> raw.Tags, AllTags |-> raw.AllTags,
                     ModulesVendor |-> raw.ModulesVendor],
        err |-> Nil]
  ELSE [options |-> ZeroOptions, err |-> "decode error"]

\* exec.Which(arg, cmds...): the first candidate that runs, with its output.
VersionOf(cmd) == IF cmd = "go" THEN "go version go1.11" ELSE "go version devel"

RECURSIVE Which(_, _)
Which(arg, cmds) ==
  IF cmds = <<>>
  THEN [cmd |-> "", output |-> "", err |-> "could not resolve command"]
  ELSE IF Head(cmds) \in installed
       THEN [cmd |-> Head(cmds), output |-> VersionOf(Head(cmds)), err |-> Nil]
       ELSE Which(arg, Tail(cmds))

\* The list of build constraints New compiles.
CompileTags_noArch(options) ==
  (IF options.AllTags THEN options.Tags \o osTags ELSE options.Tags) \o <<"">>

CompileTags_hostOnce(options) ==
  LET tags == IF options.AllTags
              THEN (options.Tags \o osTags) \o archTags
              ELSE options.Tags
  IN IF "" \in Range(tags) THEN tags ELSE tags \o <<"">>

CompileTags_tagsAfter(options) ==
  LET tags == IF options.AllTags
              THEN (osTags \o archTags) \o options.Tags
              ELSE options.Tags
  IN tags \o <<"">>

CompileTags(options) ==
  LET tags == IF options.AllTags
              THEN (options.Tags \o osTags) \o archTags
              ELSE options.Tags
  IN tags \o <<"">>

\* New(m): the pair (analyzer, error) it returns.
NewResult_ignoresWhichErr(m) ==
  LET dec == Decode(m.Options)
      w == Which("version", <<goCmdEnv, "go">>)
  IN IF dec.err # Nil THEN [analyzer |-> NoAnalyzer, err |-> dec.err]
     ELSE [analyzer |-> [Go |-> [Cmd |-> w.cmd, Dir |-> m.Dir],
                         GoVersion |-> w.output,
                         Module |-> m,
                         Options |-> dec.options,
                         BuildTags |-> CompileTags(dec.options),
                         resolverCache |-> EmptyCache,
                         projectCache |-> EmptyCache],
           err |-> Nil]

NewResult(m) ==
  LET dec == Decode(m.Options)
      w == Which("version", <<goCmdEnv, "go">>)
  IN IF dec.err # Nil THEN [analyzer |-> NoAnalyzer, err |-> dec.err]
     ELSE IF w.err # Nil THEN [analyzer |-> NoAnalyzer, err |-> w.err]
     ELSE [analyzer |-> [Go |-> [Cmd |-> w.cmd, Dir |-> m.Dir],
                         GoVersion |-> w.output,
                         Module |-> m,
                         Options |-> dec.options,
                         BuildTags |-> CompileTags(dec.options),
                         resolverCache |-> EmptyCache,
                         projectCache |-> EmptyCache],
           err |-> Nil]

\* ------------------------------------------------- the toolchain (gocmd.Go)

\* One run of the go tool: what was asked, and what it answered (the error of
\* the call, and for list the Error field of the package record).
Invocation(go, verb, targets, tags, modulesVendor, err, pkgError) ==
  [cmd |-> go.Cmd, dir |-> go.Dir, verb |-> verb, targets |-> targets,
   tags |-> tags, modulesVendor |-> modulesVendor, err |-> err,
   pkgError |-> pkgError]

Loads(t) == t \in ImportPaths /\ loads[t]

\* go clean: removes the artefacts of the targets; the tool may fail.
GoClean(go, targets) ==
  {[call |-> Invocation(go, "clean", targets, <<>>, FALSE, Nil, Nil), err |-> Nil,
    built |-> [p \in ImportPaths |-> built[p] /\ p \notin Range(targets)]],
   [call |-> Invocation(go, "clean", targets, <<>>, FALSE, "clean failed", Nil),
    err |-> "clean failed", built |-> built]}

\* go build: succeeds when every target loads, and leaves their artefacts.
GoBuild(go, targets) ==
  IF \A i \in 1..Len(targets) : Loads(targets[i])
  THEN {[call |-> Invocation(go, "build", targets, <<>>, FALSE, Nil, Nil), err |-> Nil,
         built |-> [p \in ImportPaths |-> built[p] \/ p \in Range(targets)]]}
  ELSE {[call |-> Invocation(go, "build", targets, <<>>, FALSE, "build failed", Nil),
         err |-> "build failed", built |-> built]}

\* go list -json of one package: the call fails (malformed output), or it
\* returns the package record, whose Error field is set when the package does
\* not load under the given tags. Under the host world (no tags) that is
\* `loads`; under other tags the tool may answer either way.
GoListOne(go, target, tags, modulesVendor) ==
  {[call |-> Invocation(go, "list", <<target>>, tags, modulesVendor, "list failed", Nil),
    err |-> "list failed", pkg |-> [ImportPath |-> target, Error |-> Nil]]}
  \cup
  {[call |-> Invocation(go, "list", <<target>>, tags, modulesVendor, Nil, e),
    err |-> Nil, pkg |-> [ImportPath |-> target, Error |-> e]] :
     e \in IF tags = <<>>
           THEN {IF Loads(target) THEN Nil ELSE "package error"}
           ELSE {Nil, "package error"}}

\* ---------------------------------------------------------------- actions

WorkersIdle ==
  /\ wpc = [w \in Workers |-> "idle"]
  /\ wreq = [w \in Workers |-> <<"resolver", "/src/app">>]
  /\ wgot = [w \in Workers |-> NoValue]
  /\ locks = [ck \in CacheKeys |-> Free]
  /\ writers = [ck \in CacheKeys |-> {}]

Init ==
  /\ installed \in SUBSET Commands
  /\ goCmdEnv \in EnvValues
  /\ loads \in [ImportPaths -> BOOLEAN]
  /\ built \in [ImportPaths -> BOOLEAN]
  /\ analyzer = NoAnalyzer
  /\ calls = <<>>
  /\ ret = NoRet
  /\ prev = NoRet
  /\ WorkersIdle

New ==
  /\ ret.op = "none"
  /\ \E m \in Modules :
       LET r == NewResult(m)
       IN /\ analyzer' = r.analyzer
          /\ ret' = [op |-> "New", val |-> FALSE, err |-> r.err]
  /\ prev' = ret
  /\ calls' = <<>>
  /\ UNCHANGED <<installed, goCmdEnv, loads, built, workerVars>>

Clean_swallowsError ==
  /\ analyzer # NoAnalyzer
  /\ LET m == analyzer.Module
     IN \E out \in GoClean(analyzer.Go, <<m.BuildTarget>>) :
          /\ built' = out.built
          /\ calls' = <<out.call>>
          /\ ret' = [op |-> "Clean", val |-> FALSE, err |-> Nil]
  /\ prev' = ret
  /\ UNCHANGED <<installed, goCmdEnv, loads, analyzer, workerVars>>

Clean ==
  /\ analyzer # NoAnalyzer
  /\ LET m == analyzer.Module
     IN \E out \in GoClean(analyzer.Go, <<m.BuildTarget>>) :
          /\ built' = out.built
          /\ calls' = <<out.call>>
          /\ ret' = [op |-> "Clean", val |-> FALSE, err |-> out.err]
  /\ prev' = ret
  /\ UNCHANGED <<installed, goCmdEnv, loads, analyzer, workerVars>>

Build ==
  /\ analyzer # NoAnalyzer
  /\ LET m == analyzer.Module
     IN \E out \in GoBuild(analyzer.Go, <<m.BuildTarget>>) :
          /\ built' = out.built
          /\ calls' = <<out.call>>
          /\ ret' = [op |-> "Build", val |-> FALSE, err |-> out.err]
  /\ prev' = ret
  /\ UNCHANGED <<installed, goCmdEnv, loads, analyzer, workerVars>>

IsBuilt_usesBuildTags ==
  /\ analyzer # NoAnalyzer
  /\ LET m == analyzer.Module
     IN \E out \in GoListOne(analyzer.Go, m.BuildTarget, analyzer.BuildTags,
                             analyzer.Options.ModulesVendor) :
          /\ calls' = <<out.call>>
          /\ ret' = IF out.err # Nil
                    THEN [op |-> "IsBuilt", val |-> FALSE, err |-> out.err]
                    ELSE [op |-> "IsBuilt", val |-> out.pkg.Error = Nil,
                          err |-> Nil]
  /\ prev' = ret
  /\ UNCHANGED <<installed, goCmdEnv, loads, built, analyzer, workerVars>>

IsBuilt_trueOnCallError ==
  /\ analyzer # NoAnalyzer
  /\ LET m == analyzer.Module
     IN \E out \in GoListOne(analyzer.Go, m.BuildTarget, <<>>,
                             analyzer.Options.ModulesVendor) :
          /\ calls' = <<out.call>>
          /\ ret' = [op |-> "IsBuilt", val |-> out.pkg.Error = Nil,
                     err |-> out.err]
  /\ prev' = ret
  /\ UNCHANGED <<installed, goCmdEnv, loads, built, analyzer, workerVars>>

IsBuilt_cachesProject ==
  /\ analyzer # NoAnalyzer
  /\ LET m == analyzer.Module
     IN \E out \in GoListOne(analyzer.Go, m.BuildTarget, <<>>,
                             analyzer.Options.ModulesVendor) :
          /\ calls' = <<out.call>>
          /\ ret' = IF out.err # Nil
                    THEN [op |-> "IsBuilt", val |-> FALSE, err |-> out.err]
                    ELSE [op |-> "IsBuilt", val |-> out.pkg.Error = Nil,
                          err |-> Nil]
          /\ analyzer' = IF out.err # Nil THEN analyzer
                         ELSE [analyzer EXCEPT
                                 !.projectCache = (m.Dir :> out.pkg.ImportPath)]
  /\ prev' = ret
  /\ UNCHANGED <<installed, goCmdEnv, loads, built, workerVars>>

IsBuilt ==
  /\ analyzer # NoAnalyzer
  /\ LET m == analyzer.Module
     IN \E out \in GoListOne(analyzer.Go, m.BuildTarget, <<>>,
                             analyzer.Options.ModulesVendor) :
          /\ calls' = <<out.call>>
          /\ ret' = IF out.err # Nil
                    THEN [op |-> "IsBuilt", val |-> FALSE, err |-> out.err]
                    ELSE [op |-> "IsBuilt", val |-> out.pkg.Error = Nil,
                          err |-> Nil]
  /\ prev' = ret
  /\ UNCHANGED <<installed, goCmdEnv, loads, built, analyzer, workerVars>>

Next == New \/ Clean \/ Build \/ IsBuilt

Spec == Init /\ [][Next]_vars

\* ------------------------------------------- the resolver and project caches

CacheOf(a, c) == IF c = "resolver" THEN a.resolverCache ELSE a.projectCache

Store(a, c, k, v) ==
  IF c = "resolver"
  THEN [a EXCEPT !.resolverCache = (k :> v) @@ a.resolverCache]
  ELSE [a EXCEPT !.projectCache = (k :> v) @@ a.projectCache]

\* The resolver or project a worker constructs for a directory; two
\* constructions for one directory are two objects.
Made(c, k, w) == [kind |-> c, dir |-> k, by |-> w]

\* A lookup that finds the entry: read without a lock.
Hit(w) ==
  /\ wpc[w] = "idle"
  /\ \E ck \in CacheKeys :
       /\ ck[2] \in DOMAIN CacheOf(analyzer, ck[1])
       /\ wreq' = [wreq EXCEPT ![w] = ck]
       /\ wgot' = [wgot EXCEPT ![w] = CacheOf(analyzer, ck[1])[ck[2]]]
  /\ UNCHANGED <<toolVars, opVars, analyzer, wpc, locks, writers>>

\* A lookup that misses: the worker goes for the key's exclusive section.
Miss(w) ==
  /\ wpc[w] = "idle"
  /\ \E ck \in CacheKeys :
       /\ ck[2] \notin DOMAIN CacheOf(analyzer, ck[1])
       /\ wreq' = [wreq EXCEPT ![w] = ck]
  /\ wgot' = [wgot EXCEPT ![w] = NoValue]
  /\ wpc' = [wpc EXCEPT ![w] = "wait"]
  /\ UNCHANGED <<toolVars, opVars, analyzer, locks, writers>>

Acquire(w) ==
  /\ wpc[w] = "wait"
  /\ locks[wreq[w]] = Free
  /\ locks' = [locks EXCEPT ![wreq[w]] = w]
  /\ wpc' = [wpc EXCEPT ![w] = "locked"]
  /\ UNCHANGED <<toolVars, opVars, analyzer, wreq, wgot, writers>>

\* Inside the section the worker looks again: another worker may have
\* published the entry while this one waited.
Recheck_absent(w) ==
  /\ wpc[w] = "locked"
  /\ wpc' = [wpc EXCEPT ![w] = "compute"]
  /\ UNCHANGED <<toolVars, opVars, analyzer, wreq, wgot, locks, writers>>

Recheck(w) ==
  /\ wpc[w] = "locked"
  /\ LET c == wreq[w][1]
         k == wreq[w][2]
     IN IF k \in DOMAIN CacheOf(analyzer, c)
        THEN /\ wgot' = [wgot EXCEPT ![w] = CacheOf(analyzer, c)[k]]
             /\ locks' = [locks EXCEPT ![wreq[w]] = Free]
             /\ wpc' = [wpc EXCEPT ![w] = "idle"]
        ELSE /\ wpc' = [wpc EXCEPT ![w] = "compute"]
             /\ UNCHANGED <<wgot, locks>>
  /\ UNCHANGED <<toolVars, opVars, analyzer, wreq, writers>>

\* The value is computed and published, and the section left.
Publish(w) ==
  /\ wpc[w] = "compute"
  /\ LET c == wreq[w][1]
         k == wreq[w][2]
     IN /\ analyzer' = Store(analyzer, c, k, Made(c, k, w))
        /\ wgot' = [wgot EXCEPT ![w] = Made(c, k, w)]
  /\ writers' = [writers EXCEPT ![wreq[w]] = @ \cup {w}]
  /\ locks' = [locks EXCEPT ![wreq[w]] = IF @ = w THEN Free ELSE @]
  /\ wpc' = [wpc EXCEPT ![w] = "idle"]
  /\ UNCHANGED <<toolVars, opVars, wreq>>

\* The analysis starts on an analyzer New has just returned.
CacheModules ==
  {m \in Modules : /\ m.Options.wellTyped
                   /\ m.Options.Tags = <<>>
                   /\ ~m.Options.AllTags
                   /\ ~m.Options.ModulesVendor}

InitCache ==
  /\ installed = {"go"}
  /\ goCmdEnv = ""
  /\ loads = [p \in ImportPaths |-> TRUE]
  /\ built = [p \in ImportPaths |-> FALSE]
  /\ \E m \in CacheModules : analyzer = NewResult(m).analyzer
  /\ calls = <<>>
  /\ ret = [op |-> "New", val |-> FALSE, err |-> Nil]
  /\ prev = NoRet
  /\ WorkersIdle

NextCache ==
  \E w \in Workers :
    Hit(w) \/ Miss(w) \/ Acquire(w) \/ Recheck(w) \/ Publish(w)

SpecCache == InitCache /\ [][NextCache]_vars

\* ----------------------------------------------------------------- claims

Constructed == analyzer # NoAnalyzer
LastCall == calls[Len(calls)]

\* A world (one element of BuildTags) carries a tag when the tag is among its
\* tokens; the empty tag asks for nothing.
Carries(world, tag) == tag = "" \/ world = tag

\* C1: IsBuilt returns true if and only if its one toolchain call, ListOne for
\* Module.BuildTarget under the host world (no build tags, whatever
\* BuildTags holds), succeeded with a package record that has no error: that
\* is, iff the call did not fail and the package loads under the host world.
C1_IsBuiltIffListOneHasNoError ==
  ret.op = "IsBuilt" =>
    /\ Len(calls) = 1
    /\ calls[1].verb = "list"
    /\ calls[1].targets = <<analyzer.Module.BuildTarget>>
    /\ calls[1].tags = <<>>
    /\ ret.val <=> (calls[1].err = Nil /\ calls[1].pkgError = Nil)
    /\ ret.val <=> (calls[1].err = Nil /\ loads[analyzer.Module.BuildTarget])

C1_Witness ==
  /\ ret.op = "IsBuilt"
  /\ ret.val
  /\ Len(analyzer.BuildTags) > 1
  /\ prev.op = "IsBuilt"
  /\ ~prev.val

\* C2: an IsBuilt call that returns an answer directly after a successful
\* Clean answers false, and directly after a successful Build answers true.
C2_CleanThenNotBuilt_BuildThenBuilt ==
  (ret.op = "IsBuilt" /\ ret.err = Nil /\ prev.err = Nil) =>
    /\ prev.op = "Clean" => ret.val = FALSE
    /\ prev.op = "Build" => ret.val = TRUE

\* C3: the BuildTags of every analyzer New returns is non-empty and ends with
\* the empty tag "", which New adds on top of the user's tags even when these
\* contain "" already.
C3_HostWorldAlwaysAppended ==
  Constructed =>
    /\ analyzer.BuildTags # <<>>
    /\ analyzer.BuildTags[Len(analyzer.BuildTags)] = ""
    /\ Len(analyzer.BuildTags) >= Len(analyzer.Options.Tags) + 1

C3_Witness ==
  /\ Constructed
  /\ "" \in Range(analyzer.Options.Tags)
  /\ Len(analyzer.Options.Tags) = MaxTags

\* C4 as stated: with all-tags set there is one world per OS/architecture
\* pair, a world carrying both the OS tag and the architecture tag.
C4_OneWorldPerOsArchPair ==
  (Constructed /\ analyzer.Options.AllTags) =>
    \A o \in Range(osTags), a \in Range(archTags) :
      \E i \in 1..Len(analyzer.BuildTags) :
        Carries(analyzer.BuildTags[i], o) /\ Carries(analyzer.BuildTags[i], a)

\* C4 as amended: with all-tags set, the worlds after the user's tags are one
\* world per OS tag, then one world per architecture tag, then the host world:
\* Len(osTags) + Len(archTags) + 1 worlds, each of a single tag.
C4_OneWorldPerOsTagAndPerArchTag ==
  (Constructed /\ analyzer.Options.AllTags) =>
    LET n == Len(analyzer.Options.Tags)
        bt == analyzer.BuildTags
    IN /\ Len(bt) = n + Len(osTags) + Len(archTags) + 1
       /\ \A i \in 1..Len(osTags) : bt[n + i] = osTags[i]
       /\ \A j \in 1..Len(archTags) : bt[n + Len(osTags) + j] = archTags[j]
       /\ bt[Len(bt)] = ""

C4_Witness ==
  /\ Constructed
  /\ analyzer.Options.AllTags
  /\ analyzer.Options.Tags # <<>>

\* C5 as stated: every world of BuildTags, the host world and the all-tags
\* worlds included, carries every user-supplied tag.
C5_EveryWorldCarriesUserTags ==
  Constructed =>
    \A i \in 1..Len(analyzer.BuildTags) :
      \A t \in Range(analyzer.Options.Tags) :
        Carries(analyzer.BuildTags[i], t)

\* C5 as amended: each user-supplied tag is a world of its own; the user's
\* tags are the first worlds of BuildTags, in the order given, and every
\* world after them is a bare OS tag, a bare architecture tag or the host
\* world "", to which no user tag is added.
C5_UserTagsAreWorldsOfTheirOwn ==
  Constructed =>
    LET n == Len(analyzer.Options.Tags)
        bt == analyzer.BuildTags
    IN /\ Len(bt) > n
       /\ SubSeq(bt, 1, n) = analyzer.Options.Tags
       /\ \A i \in (n + 1)..Len(bt) :
            bt[i] \in Range(osTags) \cup Range(archTags) \cup {""}
       /\ analyzer.Options.AllTags \/ Len(bt) = n + 1

C5_Witness ==
  /\ Constructed
  /\ analyzer.Options.AllTags
  /\ "netgo" \in Range(analyzer.Options.Tags)
  /\ Len(analyzer.Options.Tags) = MaxTags

\* C6: Clean and Build each issue exactly one toolchain invocation, clean
\* respectively build, whose target list is the single element
\* Module.BuildTarget, and return that invocation's error or success unchanged.
C6_CleanAndBuildDelegate ==
  /\ ret.op = "Clean" =>
       /\ Len(calls) = 1
       /\ calls[1].verb = "clean"
       /\ calls[1].targets = <<analyzer.Module.BuildTarget>>
       /\ ret.err = calls[1].err
  /\ ret.op = "Build" =>
       /\ Len(calls) = 1
       /\ calls[1].verb = "build"
       /\ calls[1].targets = <<analyzer.Module.BuildTarget>>
       /\ ret.err = calls[1].err

C6_Witness ==
  /\ ret.op = "Clean"
  /\ ret.err # Nil
  /\ prev.op = "Build"
  /\ prev.err = Nil

\* C7: when neither the command FOSSA_GO_CMD names nor "go" can be found, New
\* returns an error and no analyzer, and no toolchain invocation is ever
\* issued with a command that is not installed; an analyzer that exists has
\* as Go.Cmd the command that was found (the FOSSA_GO_CMD one first) and as
\* GoVersion the version that command reported.
C7_MissingToolIsFatal ==
  /\ (goCmdEnv \notin installed /\ "go" \notin installed) =>
       /\ ~Constructed
       /\ ret.op = "New" => ret.err # Nil
       /\ calls = <<>>
  /\ Constructed =>
       /\ analyzer.Go.Cmd \in installed
       /\ analyzer.Go.Cmd \in {goCmdEnv, "go"}
       /\ goCmdEnv \in installed => analyzer.Go.Cmd = goCmdEnv
       /\ analyzer.GoVersion = VersionOf(analyzer.Go.Cmd)
  /\ \A i \in 1..Len(calls) : calls[i].cmd \in installed

C7_Witness ==
  /\ ret.op = "New"
  /\ ret.err = "could not resolve command"
  /\ ~Constructed
  /\ "gotip" \in installed

\* C8: when the ListOne call fails IsBuilt returns (false, that error); when
\* it succeeds with a package record carrying an error IsBuilt returns
\* (false, no error); IsBuilt never returns true together with an error.
C8_IsBuiltKeepsFailuresApart ==
  ret.op = "IsBuilt" =>
    /\ LastCall.err # Nil => (ret.val = FALSE /\ ret.err = LastCall.err)
    /\ (LastCall.err = Nil /\ LastCall.pkgError # Nil) =>
         (ret.val = FALSE /\ ret.err = Nil)
    /\ ~(ret.val /\ ret.err # Nil)

C8_Witness ==
  /\ ret.op = "IsBuilt"
  /\ LastCall.err = Nil
  /\ LastCall.pkgError # Nil
  /\ prev.op = "IsBuilt"
  /\ prev.err # Nil

\* C9: an entry of either cache, once present, is never replaced or removed;
\* each key is written by at most one worker; a worker computing a value is
\* inside the key's exclusive section; every value a lookup returned is the
\* entry of its key; and a lookup that hits leaves the locks alone.
C9_CacheInvariant ==
  /\ \A ck \in CacheKeys : Cardinality(writers[ck]) <= 1
  /\ \A w \in Workers : wpc[w] \in {"locked", "compute"} => locks[wreq[w]] = w
  /\ \A w \in Workers :
       wgot[w] # NoValue =>
         /\ wreq[w][2] \in DOMAIN CacheOf(analyzer, wreq[w][1])
         /\ CacheOf(analyzer, wreq[w][1])[wreq[w][2]] = wgot[w]

C9_CacheStep ==
  /\ \A ck \in CacheKeys :
       ck[2] \in DOMAIN CacheOf(analyzer, ck[1]) =>
         /\ ck[2] \in DOMAIN CacheOf(analyzer', ck[1])
         /\ CacheOf(analyzer', ck[1])[ck[2]] = CacheOf(analyzer, ck[1])[ck[2]]
  /\ \A w \in Workers :
       (wpc[w] = "idle" /\ wpc'[w] = "idle" /\ wgot'[w] # wgot[w]) =>
         (locks' = locks /\ \A ck \in CacheKeys : locks[ck] # w)

C10_NewCachesEmpty ==
  Constructed =>
    /\ analyzer.resolverCache = EmptyCache
    /\ analyzer.projectCache = EmptyCache
    /\ DOMAIN analyzer.resolverCache = {}
    /\ DOMAIN analyzer.projectCache = {}

C10_OperationsKeepAnalyzer ==
  (Constructed /\ ret'.op \in {"Clean", "Build", "IsBuilt"}) =>
    analyzer' = analyzer

\* C10: New's caches are empty, and every Clean, Build and IsBuilt step
\* leaves the analyzer exactly as New returned it.
C10_OperationsChangeOnlyToolchain ==
  [](C10_NewCachesEmpty) /\ [][C10_OperationsKeepAnalyzer]_vars

C10_Witness ==
  /\ ret.op = "IsBuilt"
  /\ ret.err = Nil
  /\ prev.op = "Build"
  /\ prev.err # Nil
  /\ analyzer.projectCache = EmptyCache
====
